---- MODULE Spec2Model ----
(***************************************************************************)
(* Model of cosmic_dance/dst_index.py: the three threshold-window          *)
(* extractors (above / below / between), merge_window,                     *)
(* add_window_duration and get_Dst_in_range.                               *)
(*                                                                         *)
(* Time is counted in whole hours (the Dst index is hourly): a timestamp   *)
(* is an integer number of hours since an arbitrary epoch, a Timedelta is  *)
(* a difference of two of them.  A DataFrame is a record                   *)
(*   [columns |-> set of column names, rows |-> sequence of row records]   *)
(* and a raised Python exception is a record [raised |-> name].            *)
(***************************************************************************)
EXTENDS Integers, Sequences, FiniteSets, TLC

\* ---------------------------------------------------------------- bounds
\* Longest Dst series handed to an extractor or to the range query.
MaxLen == 4
\* Series timestamps are drawn from 0..MaxTime (hours).
MaxTime == 3
\* Longest series whose timestamps are in arbitrary order (longer series are
\* strictly ascending, as the record source delivers them).
MaxUnsortedLen == 2
\* Most merge_window / add_window_duration calls chained on one table.
MaxCalls == 2
\* Most rows of a window table handed to merge_window.
MaxWin == 3
\* Window instants are drawn from the half-day grid 0, 12, .., 12*MaxTick.
MaxTick == 4
\* merge_window's days argument is drawn from -1..MaxDays.
MaxDays == 3

\* ------------------------------------------------------- program constants
\* pd.Timedelta(days=1) expressed in the model's time unit (hours).
HoursPerDay == 24
\* Python's None (stime = None, etime = None); timestamps are >= 0.
None == -1
\* The local name _timestamp before its first assignment.
Unbound == -2

\* class DST: the column labels.
DST_TIMESTAMP == "TIMESTAMP"
DST_NANOTESLA == "nT"
DST_STARTTIME == "STARTTIME"
DST_ENDTIME == "ENDTIME"
DST_DURATION_HOURS == "DURATION_HOURS"

\* Exceptions the code can raise.
KeyError == [raised |-> "KeyError"]
UnboundLocalError == [raised |-> "UnboundLocalError"]

IsRaised(v) == "raised" \in DOMAIN v

\* --------------------------------------------------------------- DataFrame
\* pd.DataFrame.from_dict(list of dicts): the columns are the dicts' keys, an
\* empty list gives a frame with no columns at all.
from_dict(records) ==
    [columns |-> IF records = <<>> THEN {} ELSE DOMAIN records[1],
     rows    |-> records]

\* df.to_dict(orient='records') after `del df[DST.DURATION_HOURS]`: one fresh
\* dict per row holding the remaining columns.
to_dict(df) ==
    [k \in 1..Len(df.rows) |->
        [STARTTIME |-> df.rows[k].STARTTIME, ENDTIME |-> df.rows[k].ENDTIME]]

\* duration_hours with the operands of the subtraction exchanged.
duration_hours_swapped(row) == row.STARTTIME - row.ENDTIME

\* (df[ENDTIME] - df[STARTTIME]) / pd.Timedelta(hours=1) for one row.
duration_hours(row) == row.ENDTIME - row.STARTTIME

\* add_window_duration: df[ENDTIME] / df[STARTTIME] on a frame without these
\* columns raises KeyError; otherwise the DURATION_HOURS column is set (added
\* or overwritten) on every row.
add_window_duration(df) ==
    IF ~({DST_STARTTIME, DST_ENDTIME} \subseteq df.columns)
    THEN KeyError
    ELSE [columns |-> df.columns \cup {DST_DURATION_HOURS},
          rows    |-> [k \in 1..Len(df.rows) |->
                         [STARTTIME      |-> df.rows[k].STARTTIME,
                          ENDTIME        |-> df.rows[k].ENDTIME,
                          DURATION_HOURS |-> duration_hours(df.rows[k])]]]

\* -------------------------------------------------------------- extractors
\* Locals of an extractor before its loop.
extract_locals ==
    [stime |-> None, etime |-> None, active_time_records |-> <<>>]

\* Locals of the between extractor: _timestamp is not assigned before the loop.
between_locals ==
    [stime |-> None, etime |-> None, active_time_records |-> <<>>,
     _timestamp |-> Unbound, raised |-> FALSE]

\* record_and_reset that leaves the window open at its end timestamp instead
\* of returning to idle.
record_and_reset_reopen(loc) ==
    IF (loc.stime # None) /\ (loc.etime # None)
    THEN [loc EXCEPT !.active_time_records =
                        Append(@, [STARTTIME |-> loc.stime, ENDTIME |-> loc.etime]),
                     !.stime = loc.etime,
                     !.etime = None]
    ELSE loc

\* record_and_reset with the two timestamps stored under each other's label.
record_and_reset_swapped(loc) ==
    IF (loc.stime # None) /\ (loc.etime # None)
    THEN [loc EXCEPT !.active_time_records =
                        Append(@, [STARTTIME |-> loc.etime, ENDTIME |-> loc.stime]),
                     !.stime = None,
                     !.etime = None]
    ELSE loc

\* "Recording one window and reset": append {STARTTIME, ENDTIME}, clear both.
\* The same statements close the loop body of all three extractors
\* (lines 167-174, 214-221, 269-275).
record_and_reset(loc) ==
    IF (loc.stime # None) /\ (loc.etime # None)
    THEN [loc EXCEPT !.active_time_records =
                        Append(@, [STARTTIME |-> loc.stime, ENDTIME |-> loc.etime]),
                     !.stime = None,
                     !.etime = None]
    ELSE loc

\* above_start opening a window already at a value equal to the threshold.
above_start_at_threshold(nT, THRESHOLD, loc) ==
    (nT >= THRESHOLD) /\ (loc.stime = None)

\* above: the two branch conditions.
above_start(nT, THRESHOLD, loc) == (nT > THRESHOLD) /\ (loc.stime = None)

above_end(nT, THRESHOLD, loc) ==
    (nT < THRESHOLD) /\ (loc.stime # None) /\ (loc.etime = None)

\* One iteration of the loop of extract_timespan_above_nT_intensity.
above_iter(loc, timestamp, nT, THRESHOLD) ==
    record_and_reset(
        IF above_start(nT, THRESHOLD, loc) THEN [loc EXCEPT !.stime = timestamp]
        ELSE IF above_end(nT, THRESHOLD, loc) THEN [loc EXCEPT !.etime = timestamp]
        ELSE loc)

\* below: the two branch conditions.
below_start(nT, THRESHOLD, loc) == (nT < THRESHOLD) /\ (loc.stime = None)

\* below_end closing the window already at a value equal to the threshold.
below_end_at_threshold(nT, THRESHOLD, loc) ==
    (nT >= THRESHOLD) /\ (loc.stime # None) /\ (loc.etime = None)

below_end(nT, THRESHOLD, loc) ==
    (nT > THRESHOLD) /\ (loc.stime # None) /\ (loc.etime = None)

\* One iteration of the loop of extract_timespan_below_nT_intensity.
below_iter(loc, timestamp, nT, THRESHOLD) ==
    record_and_reset(
        IF below_start(nT, THRESHOLD, loc) THEN [loc EXCEPT !.stime = timestamp]
        ELSE IF below_end(nT, THRESHOLD, loc) THEN [loc EXCEPT !.etime = timestamp]
        ELSE loc)

\* in_range(v): "Is the given value within bound".
in_range(v, lb, ub) == (lb <= v) /\ (v <= ub)

\* between: the window end is the previous sample's timestamp.  Reading
\* _timestamp before it was ever assigned raises UnboundLocalError.
between_end_time(loc) == loc._timestamp

\* between_iter with the commented-out `etime = timestamp` (line 265) in
\* place of `etime = _timestamp`.
between_iter_current(loc, timestamp, nT, lb, ub) ==
    LET l1 == IF in_range(nT, lb, ub) /\ (loc.stime = None)
              THEN [loc EXCEPT !.stime = timestamp]
              ELSE IF ~in_range(nT, lb, ub) /\ (loc.stime # None) /\ (loc.etime = None)
              THEN [loc EXCEPT !.etime = timestamp]
              ELSE loc
    IN  [record_and_reset(l1) EXCEPT !._timestamp = timestamp]

\* between_iter with `_timestamp = timestamp` indented into the recording
\* block, so that it runs only when a window is recorded.
between_iter_late(loc, timestamp, nT, lb, ub) ==
    LET l1 == IF in_range(nT, lb, ub) /\ (loc.stime = None)
              THEN [loc EXCEPT !.stime = timestamp]
              ELSE IF ~in_range(nT, lb, ub) /\ (loc.stime # None) /\ (loc.etime = None)
              THEN IF between_end_time(loc) = Unbound
                   THEN [loc EXCEPT !.raised = TRUE]
                   ELSE [loc EXCEPT !.etime = between_end_time(loc)]
              ELSE loc
    IN  IF l1.raised THEN l1
        ELSE IF (l1.stime # None) /\ (l1.etime # None)
             THEN [record_and_reset(l1) EXCEPT !._timestamp = timestamp]
             ELSE l1

\* One iteration of the loop of extract_timespan_between_nT_intensity.
between_iter(loc, timestamp, nT, lb, ub) ==
    LET l1 == IF in_range(nT, lb, ub) /\ (loc.stime = None)
              THEN [loc EXCEPT !.stime = timestamp]
              ELSE IF ~in_range(nT, lb, ub) /\ (loc.stime # None) /\ (loc.etime = None)
              THEN IF between_end_time(loc) = Unbound
                   THEN [loc EXCEPT !.raised = TRUE]
                   ELSE [loc EXCEPT !.etime = between_end_time(loc)]
              ELSE loc
    IN  IF l1.raised THEN l1
        ELSE [record_and_reset(l1) EXCEPT !._timestamp = timestamp]

\* extract_return flushing a start that is still pending after the loop.
extract_return_flush(loc) ==
    from_dict(IF loc.stime # None
              THEN Append(loc.active_time_records,
                          [STARTTIME |-> loc.stime, ENDTIME |-> loc.etime])
              ELSE loc.active_time_records)

\* The value an extractor returns once its loop has ended: only the recorded
\* windows; a pending stime is not flushed.
extract_return(loc) == from_dict(loc.active_time_records)

RECURSIVE above_loop(_, _, _, _)
above_loop(df, i, loc, THRESHOLD) ==
    IF i > Len(df) THEN loc
    ELSE above_loop(df, i + 1,
                    above_iter(loc, df[i].TIMESTAMP, df[i].nT, THRESHOLD), THRESHOLD)

RECURSIVE below_loop(_, _, _, _)
below_loop(df, i, loc, THRESHOLD) ==
    IF i > Len(df) THEN loc
    ELSE below_loop(df, i + 1,
                    below_iter(loc, df[i].TIMESTAMP, df[i].nT, THRESHOLD), THRESHOLD)

RECURSIVE between_loop(_, _, _, _, _)
between_loop(df, i, loc, lb, ub) ==
    IF (i > Len(df)) \/ loc.raised THEN loc
    ELSE between_loop(df, i + 1,
                      between_iter(loc, df[i].TIMESTAMP, df[i].nT, lb, ub), lb, ub)

\* The extractors as functions of their arguments.
extract_timespan_above_nT_intensity(df, THRESHOLD) ==
    extract_return(above_loop(df, 1, extract_locals, THRESHOLD))

extract_timespan_below_nT_intensity(df, THRESHOLD) ==
    extract_return(below_loop(df, 1, extract_locals, THRESHOLD))

extract_timespan_between_nT_intensity(df, lb, ub) ==
    LET loc == between_loop(df, 1, between_locals, lb, ub)
    IN  IF loc.raised THEN UnboundLocalError ELSE extract_return(loc)

\* ------------------------------------------------------------ merge_window
\* `del df[DST.DURATION_HOURS]`: the column is removed from the caller's frame.
del_duration(df) ==
    [columns |-> df.columns \ {DST_DURATION_HOURS},
     rows    |-> to_dict(df)]

\* Locals of merge_window before its loop.  merge_events holds references
\* (indices into events) to the very dicts of events: appending an event and
\* then assigning merge_events[-1][ENDTIME] writes into that event's dict.
merge_locals(df) == [events |-> to_dict(df), merge_events |-> <<>>]

\* time_diff_lt_days with the comparison `time_diff <= days`.
time_diff_le_days(start, end, days) == (start - end) <= days * HoursPerDay

\* time_diff = (event[STARTTIME] - merge_events[-1][ENDTIME]) / pd.Timedelta(days=1);
\* `time_diff < days`.  The quotient is a real number of days; it is below
\* `days` exactly when the difference in hours is below days * 24.
time_diff_lt_days(start, end, days) == (start - end) < days * HoursPerDay

\* `if len(merge_events) == 0: merge_events.append(event)`, with no `continue`.
append_first(merge_events, k) ==
    IF Len(merge_events) = 0 THEN Append(merge_events, k) ELSE merge_events

\* merge_iter assigning the merged event's end to the accumulated window's
\* STARTTIME instead of its ENDTIME.
merge_iter_moves_start(loc, k, days) ==
    LET m1   == append_first(loc.merge_events, k)
        last == m1[Len(m1)]
    IN  IF time_diff_lt_days(loc.events[k].STARTTIME, loc.events[last].ENDTIME, days)
        THEN [events       |-> [loc.events EXCEPT ![last].STARTTIME = loc.events[k].ENDTIME],
              merge_events |-> m1]
        ELSE [events       |-> loc.events,
              merge_events |-> Append(m1, k)]

\* merge_iter dropping a close event without extending the accumulated window.
merge_iter_drop(loc, k, days) ==
    LET m1   == append_first(loc.merge_events, k)
        last == m1[Len(m1)]
    IN  IF time_diff_lt_days(loc.events[k].STARTTIME, loc.events[last].ENDTIME, days)
        THEN [events       |-> loc.events,
              merge_events |-> m1]
        ELSE [events       |-> loc.events,
              merge_events |-> Append(m1, k)]

\* One iteration of the loop of merge_window, for event number k.
merge_iter(loc, k, days) ==
    LET m1   == append_first(loc.merge_events, k)
        last == m1[Len(m1)]
    IN  IF time_diff_lt_days(loc.events[k].STARTTIME, loc.events[last].ENDTIME, days)
        THEN [events       |-> [loc.events EXCEPT ![last].ENDTIME = loc.events[k].ENDTIME],
              merge_events |-> m1]
        ELSE [events       |-> loc.events,
              merge_events |-> Append(m1, k)]

\* The list of dicts handed to pd.DataFrame.from_dict after the loop.
merged_records(loc) ==
    [j \in 1..Len(loc.merge_events) |-> loc.events[loc.merge_events[j]]]

\* Lines 108-109: build the frame and add the duration of the new windows.
merge_return(loc) == add_window_duration(from_dict(merged_records(loc)))

RECURSIVE merge_loop(_, _, _)
merge_loop(loc, k, days) ==
    IF k > Len(loc.events) THEN loc
    ELSE merge_loop(merge_iter(loc, k, days), k + 1, days)

\* merge_window as a function of its arguments.
merge_window(df, days) ==
    IF DST_DURATION_HOURS \notin df.columns THEN KeyError
    ELSE merge_return(merge_loop(merge_locals(del_duration(df)), 1, days))

\* -------------------------------------------------------- get_Dst_in_range
\* between with the right bound excluded.
between_right_open(t, dfrom, dto) == (dfrom <= t) /\ (t < dto)

\* Series.between(left, right): inclusive="both" is the default.
between(t, dfrom, dto) == (dfrom <= t) /\ (t <= dto)

\* df[df[TIMESTAMP].between(dfrom, dto)]: the rows whose mask is True, in
\* their order, under the frame's own columns.
get_Dst_in_range(df, dfrom, dto) ==
    LET keep(sample) == between(sample.TIMESTAMP, dfrom, dto)
    IN  [columns |-> {DST_TIMESTAMP, DST_NANOTESLA},
         rows    |-> SelectSeq(df, keep)]

\* ------------------------------------------------------------------ inputs
Times == 0..MaxTime
nTValues == {0, 1, 2}
Thresholds == {1}
Ranges == {<<1, 1>>, <<0, 1>>, <<1, 2>>}

Samples == [TIMESTAMP : Times, nT : nTValues]
AscendingColumns(n) ==
    {c \in [1..n -> Times] : \A k \in 1..(n - 1) : c[k] < c[k + 1]}
AscendingSeries ==
    UNION {{[k \in 1..n |-> [TIMESTAMP |-> c[k], nT |-> v[k]]] :
                c \in AscendingColumns(n), v \in [1..n -> nTValues]} :
           n \in 0..MaxLen}
BoundedSeries ==
    AscendingSeries \cup UNION {[1..n -> Samples] : n \in 0..MaxUnsortedLen}

\* The series of the spec's worked example: 5, 15, 20, 8, 3 at t0..t4.
ScenarioSeries ==
    << [TIMESTAMP |-> 0, nT |-> 5],  [TIMESTAMP |-> 1, nT |-> 15],
       [TIMESTAMP |-> 2, nT |-> 20], [TIMESTAMP |-> 3, nT |-> 8],
       [TIMESTAMP |-> 4, nT |-> 3] >>
ScenarioCall == <<ScenarioSeries, 10>>

WindowInstants == {12 * t : t \in 0..MaxTick}
Windows == {w \in [STARTTIME : WindowInstants, ENDTIME : WindowInstants] :
                w.STARTTIME <= w.ENDTIME}
SortedByStart(ws) ==
    \A k \in 1..(Len(ws) - 1) : ws[k].STARTTIME <= ws[k + 1].STARTTIME
WindowLists ==
    UNION {{ws \in [1..n -> Windows] : SortedByStart(ws)} : n \in 0..MaxWin}

\* The windows of the spec's worked example: {d0,d1}, {d3,d4}, two days apart.
ScenarioWindows ==
    << [STARTTIME |-> 0, ENDTIME |-> 24], [STARTTIME |-> 72, ENDTIME |-> 96] >>

\* A window table as add_window_duration / read_timespan_CSV hand it on (with
\* the duration column) or as an extractor returns it (without).
TableOf(ws, annotated) ==
    IF annotated
    THEN [columns |-> {DST_STARTTIME, DST_ENDTIME, DST_DURATION_HOURS},
          rows    |-> [k \in 1..Len(ws) |->
                         [STARTTIME      |-> ws[k].STARTTIME,
                          ENDTIME        |-> ws[k].ENDTIME,
                          DURATION_HOURS |-> duration_hours(ws[k])]]]
    ELSE from_dict(ws)

DaysValues == (-1)..MaxDays

NoTable == [columns |-> {}, rows |-> <<>>]

\* ------------------------------------------------------------------- state
VARIABLES
    fn,         \* the function being run: "above", "below", "between",
                \* "merge", "annotate" (add_window_duration), "range"
    pc,         \* "enter", "loop", "done" (returned) or "raised" (exception)
    series,     \* the Dst series passed to an extractor
    THRESHOLD,  \* above / below
    bounds,     \* between: <<lb, ub>>
    input,      \* merge_window: the window table as the caller built it
    df,         \* merge_window: the caller's frame object, as it is now
    days,       \* merge_window: the days argument
    idx,        \* position of the loop in its sequence
    loc,        \* the running function's locals
    ret,        \* the value returned (NoTable until then)
    range,      \* get_Dst_in_range: <<dfrom, dto>>
    calls,      \* merge_window / add_window_duration calls made on the table
    ret_is_df   \* the frame returned is the very object the caller passed

vars == <<fn, pc, series, THRESHOLD, bounds, input, df, days, idx, loc, ret,
          range, calls, ret_is_df>>

InitExtract ==
    /\ fn \in {"above", "below", "between"}
    /\ pc = "loop"
    /\ IF fn = "between"
       THEN /\ series \in BoundedSeries
            /\ THRESHOLD = 0
            /\ bounds \in Ranges
            /\ loc = between_locals
       ELSE /\ \E call \in (BoundedSeries \X Thresholds)
                               \cup {ScenarioCall} :
                  series = call[1] /\ THRESHOLD = call[2]
            /\ bounds = <<0, 0>>
            /\ loc = extract_locals
    /\ input = NoTable /\ df = NoTable /\ days = 0
    /\ idx = 1
    /\ ret = NoTable
    /\ range = <<0, 0>> /\ calls = 0 /\ ret_is_df = FALSE

InitMerge ==
    /\ fn = "merge"
    /\ pc = "enter"
    /\ series = <<>> /\ THRESHOLD = 0 /\ bounds = <<0, 0>>
    /\ \E ws \in WindowLists \cup {ScenarioWindows}, annotated \in BOOLEAN :
          input = TableOf(ws, annotated)
    /\ df = input
    /\ days \in DaysValues
    /\ idx = 1
    /\ loc = [events |-> <<>>, merge_events |-> <<>>]
    /\ ret = NoTable
    /\ range = <<0, 0>> /\ calls = 1 /\ ret_is_df = FALSE

\* add_window_duration called on a window table (an extractor's output, or a
\* table that already carries the column).
InitAnnotate ==
    /\ fn = "annotate"
    /\ pc = "enter"
    /\ series = <<>> /\ THRESHOLD = 0 /\ bounds = <<0, 0>>
    /\ \E ws \in WindowLists, annotated \in BOOLEAN :
          input = TableOf(ws, annotated)
    /\ df = input
    /\ days \in DaysValues
    /\ idx = 1
    /\ loc = [events |-> <<>>, merge_events |-> <<>>]
    /\ ret = NoTable
    /\ range = <<0, 0>> /\ calls = 1 /\ ret_is_df = FALSE

\* get_Dst_in_range called on a series with a time range.
InitRange ==
    /\ fn = "range"
    /\ pc = "enter"
    /\ series \in BoundedSeries
    /\ THRESHOLD = 0 /\ bounds = <<0, 0>>
    /\ input = NoTable /\ df = NoTable /\ days = 0
    /\ idx = 1
    /\ loc = extract_locals
    /\ ret = NoTable
    /\ range \in Times \X Times /\ calls = 0 /\ ret_is_df = FALSE

Init == InitExtract \/ InitMerge \/ InitAnnotate \/ InitRange

\* ----------------------------------------------------------------- actions
Frame ==
    UNCHANGED <<fn, series, THRESHOLD, bounds, input, days, range, calls, ret_is_df>>

AboveIter ==
    /\ fn = "above" /\ pc = "loop" /\ idx <= Len(series)
    /\ loc' = above_iter(loc, series[idx].TIMESTAMP, series[idx].nT, THRESHOLD)
    /\ idx' = idx + 1
    /\ UNCHANGED <<pc, df, ret>> /\ Frame

BelowIter ==
    /\ fn = "below" /\ pc = "loop" /\ idx <= Len(series)
    /\ loc' = below_iter(loc, series[idx].TIMESTAMP, series[idx].nT, THRESHOLD)
    /\ idx' = idx + 1
    /\ UNCHANGED <<pc, df, ret>> /\ Frame

BetweenIter ==
    /\ fn = "between" /\ pc = "loop" /\ idx <= Len(series)
    /\ loc' = between_iter(loc, series[idx].TIMESTAMP, series[idx].nT,
                           bounds[1], bounds[2])
    /\ idx' = idx + 1
    /\ pc' = IF loc'.raised THEN "raised" ELSE pc
    /\ UNCHANGED <<df, ret>> /\ Frame

ExtractReturn ==
    /\ fn \in {"above", "below", "between"} /\ pc = "loop" /\ idx > Len(series)
    /\ ret' = extract_return(loc)
    /\ pc' = "done"
    /\ UNCHANGED <<df, idx, loc>> /\ Frame

\* Lines 78-87: delete the duration column of the caller's frame, copy the
\* rows out, start with an empty merge_events.
MergeEnter ==
    /\ fn = "merge" /\ pc = "enter"
    /\ IF DST_DURATION_HOURS \notin df.columns
       THEN pc' = "raised" /\ UNCHANGED <<df, loc>>
       ELSE /\ df' = del_duration(df)
            /\ loc' = merge_locals(df')
            /\ pc' = "loop"
    /\ UNCHANGED <<idx, ret>> /\ Frame

MergeIter ==
    /\ fn = "merge" /\ pc = "loop" /\ idx <= Len(loc.events)
    /\ loc' = merge_iter(loc, idx, days)
    /\ idx' = idx + 1
    /\ UNCHANGED <<pc, df, ret>> /\ Frame

MergeReturn ==
    /\ fn = "merge" /\ pc = "loop" /\ idx > Len(loc.events)
    /\ LET r == merge_return(loc)
       IN  IF IsRaised(r)
           THEN pc' = "raised" /\ UNCHANGED ret
           ELSE pc' = "done" /\ ret' = r
    /\ UNCHANGED <<df, idx, loc>> /\ Frame

\* add_window_duration: the column is assigned on the caller's frame and that
\* same frame is returned (lines 125-129).
AddDuration ==
    /\ fn = "annotate" /\ pc = "enter"
    /\ LET r == add_window_duration(df)
       IN  IF IsRaised(r)
           THEN pc' = "raised" /\ UNCHANGED <<df, ret, ret_is_df>>
           ELSE pc' = "done" /\ df' = r /\ ret' = r /\ ret_is_df' = TRUE
    /\ UNCHANGED <<fn, series, THRESHOLD, bounds, input, days, range, calls,
                   idx, loc>>

\* get_Dst_in_range: one expression (line 35).
RangeQuery ==
    /\ fn = "range" /\ pc = "enter"
    /\ ret' = get_Dst_in_range(series, range[1], range[2])
    /\ pc' = "done"
    /\ UNCHANGED <<df, idx, loc>> /\ Frame

\* The caller hands the frame it just got back to merge_window or to
\* add_window_duration: the pipeline extractor -> merger / annotator, and
\* further calls on a merged or annotated table.
CallNext ==
    /\ pc = "done"
    /\ fn \in {"above", "below", "between", "merge", "annotate"}
    /\ calls < MaxCalls
    /\ fn' \in {"merge", "annotate"}
    /\ pc' = "enter"
    /\ input' = ret /\ df' = ret
    /\ IF fn \in {"above", "below", "between"}
       THEN days' \in DaysValues
       ELSE days' = days
    /\ idx' = 1
    /\ loc' = [events |-> <<>>, merge_events |-> <<>>]
    /\ ret' = NoTable
    /\ calls' = calls + 1
    /\ ret_is_df' = FALSE
    /\ UNCHANGED <<series, THRESHOLD, bounds, range>>

Next ==
    \/ AboveIter
    \/ BelowIter
    \/ BetweenIter
    \/ ExtractReturn
    \/ MergeEnter
    \/ MergeIter
    \/ MergeReturn
    \/ AddDuration
    \/ RangeQuery
    \/ CallNext

Spec == Init /\ [][Next]_vars

\* ------------------------------------------------------- shared vocabulary
Extractors == {"above", "below", "between"}

\* The series is strictly ascending / ascending in timestamp.
StrictlyAscending(s) ==
    \A k \in 1..(Len(s) - 1) : s[k].TIMESTAMP < s[k + 1].TIMESTAMP
Ascending(s) ==
    \A k \in 1..(Len(s) - 1) : s[k].TIMESTAMP <= s[k + 1].TIMESTAMP

\* The threshold predicate of the running extractor, as the spec words it.
Predicate(v) ==
    CASE fn = "above"   -> v > THRESHOLD
      [] fn = "below"   -> v < THRESHOLD
      [] fn = "between" -> (bounds[1] <= v) /\ (v <= bounds[2])
      [] OTHER          -> FALSE

\* An extractor has returned / merge_window has returned or raised.
ExtractDone == (fn \in Extractors) /\ (pc = "done")
MergeDone == (fn = "merge") /\ (pc = "done")
MergeEnded == (fn = "merge") /\ (pc \in {"done", "raised"})

\* The table passed to merge_window carries the duration column.
Annotated == DST_DURATION_HOURS \in input.columns

\* Start and end columns of a table's rows.
Extents(rows) ==
    [k \in 1..Len(rows) |->
        [STARTTIME |-> rows[k].STARTTIME, ENDTIME |-> rows[k].ENDTIME]]

\* Windows as an extractor produces them: start <= end, sorted, disjoint.
Disjoint(rows) ==
    \A k \in 1..(Len(rows) - 1) : rows[k].ENDTIME < rows[k + 1].STARTTIME
WellFormed(rows) ==
    \A k \in 1..Len(rows) : rows[k].STARTTIME <= rows[k].ENDTIME
ExtractorShaped(rows) == WellFormed(rows) /\ Disjoint(rows)

\* ------------------------------------------------------------------- C1
\* Boundary policy (a), read off the spec: a window opens at the first sample
\* since idle whose value satisfies the predicate and closes at the first
\* later sample whose value does not.
RECURSIVE PolicyAWindows(_, _, _)
PolicyAWindows(s, i, start) ==
    IF i > Len(s) THEN <<>>
    ELSE IF start = None
         THEN PolicyAWindows(s, i + 1,
                             IF Predicate(s[i].nT) THEN s[i].TIMESTAMP ELSE None)
         ELSE IF ~Predicate(s[i].nT)
              THEN <<[STARTTIME |-> start, ENDTIME |-> s[i].TIMESTAMP]>>
                       \o PolicyAWindows(s, i + 1, None)
              ELSE PolicyAWindows(s, i + 1, start)

\* C1: on every strictly ascending series the above and below extractors
\* return exactly the policy-(a) windows of their predicate; the series
\* 5,15,20,8,3 with threshold 10 ("above") gives the one window {t1, t3}.
C1_PolicyA ==
    (ExtractDone /\ fn \in {"above", "below"} /\ StrictlyAscending(series))
        => /\ ret.rows = PolicyAWindows(series, 1, None)
           /\ (fn = "above" /\ series = ScenarioSeries)
                 => ret.rows = <<[STARTTIME |-> 1, ENDTIME |-> 3]>>

\* ------------------------------------------------------------------- C2
\* The predicate becomes true at some sample and is never false afterwards.
TrueFromSomePointOn(s) ==
    \E k \in 1..Len(s) :
        /\ \A j \in 1..(k - 1) : ~Predicate(s[j].nT)
        /\ \A j \in k..Len(s) : Predicate(s[j].nT)

\* C2: every window an extractor returns has both a start and an end; a start
\* still pending when the series ends is not among the returned windows; and
\* a series whose predicate turns true and never false again returns nothing.
C2_UnmatchedStartDropped ==
    ExtractDone
        => /\ \A k \in 1..Len(ret.rows) :
                  ret.rows[k].STARTTIME # None /\ ret.rows[k].ENDTIME # None
           /\ (loc.stime # None /\ StrictlyAscending(series))
                 => \A k \in 1..Len(ret.rows) : ret.rows[k].STARTTIME # loc.stime
           /\ TrueFromSomePointOn(series) => ret.rows = <<>>

\* A window was returned and a later start was left unmatched.
C2_Witness ==
    ExtractDone /\ loc.stime # None /\ Len(ret.rows) = 1
        /\ StrictlyAscending(series)

\* ------------------------------------------------------------------- C3
\* C3: merging the result of a merge again with the same gap g >= 0 changes
\* nothing, for every window table shaped as an extractor produces it.
C3_MergeIdempotent ==
    (MergeDone /\ Annotated /\ ExtractorShaped(input.rows) /\ days >= 0)
        => merge_window(ret, days) = ret

\* ------------------------------------------------------------------- C4
\* Output row o covers input row w by time extent.
Covers(o, w) == (o.STARTTIME <= w.STARTTIME) /\ (w.ENDTIME <= o.ENDTIME)

\* C4: for every extractor-shaped input and every days value the returned
\* windows are time-ordered and disjoint, and each covers an input window.
C4_MergeOutputDisjoint ==
    (MergeDone /\ Annotated /\ ExtractorShaped(input.rows))
        => /\ Disjoint(ret.rows)
           /\ \A k \in 1..Len(ret.rows) :
                  \E j \in 1..Len(input.rows) : Covers(ret.rows[k], input.rows[j])

\* ------------------------------------------------------------------- C5
\* Input rows k and k+1 lie in one and the same returned window.
SameOutputWindow(k) ==
    \E j \in 1..Len(ret.rows) :
        /\ Covers(ret.rows[j], input.rows[k])
        /\ Covers(ret.rows[j], input.rows[k + 1])

\* The gap between input rows k and k+1, in hours.
GapHours(k) == input.rows[k + 1].STARTTIME - input.rows[k].ENDTIME

\* C5: two consecutive input windows end up in one output window exactly when
\* their gap in days is < days; a gap equal to days keeps them apart.  The
\* windows {d0,d1},{d3,d4} become {d0,d4} with days = 3 and stay with days = 1.
C5_StrictGap ==
    (MergeDone /\ Annotated /\ ExtractorShaped(input.rows))
        => /\ \A k \in 1..(Len(input.rows) - 1) :
                  SameOutputWindow(k) <=> (GapHours(k) < days * HoursPerDay)
           /\ (Extents(input.rows) = ScenarioWindows /\ days = 3)
                 => Extents(ret.rows) = <<[STARTTIME |-> 0, ENDTIME |-> 96]>>
           /\ (Extents(input.rows) = ScenarioWindows /\ days = 1)
                 => Extents(ret.rows) = ScenarioWindows

\* Two windows exactly `days` days apart were kept as two windows.
C5_Witness ==
    /\ MergeDone /\ Annotated /\ ExtractorShaped(input.rows)
    /\ Len(input.rows) = 2 /\ days >= 1
    /\ GapHours(1) = days * HoursPerDay
    /\ Len(ret.rows) = 2

\* ------------------------------------------------------------------- C6
\* No window's end coincides with the next window's start.
NoCoincidence(rows) ==
    \A k \in 1..(Len(rows) - 1) : rows[k].ENDTIME # rows[k + 1].STARTTIME

\* C6: with days = 0 a non-empty extractor-shaped table in which no end
\* coincides with the next start is returned unchanged.
C6_ZeroGapIdentity ==
    (MergeEnded /\ Annotated /\ days = 0 /\ Len(input.rows) >= 1
        /\ ExtractorShaped(input.rows) /\ NoCoincidence(input.rows))
        => (pc = "done" /\ ret = input)

\* ------------------------------------------------------------------- C7
\* C7: a table of zero rows or of one row is returned unchanged, without an
\* error, for every days value.
C7_SmallInputNoOp ==
    (MergeEnded /\ Annotated /\ Len(input.rows) <= 1 /\ WellFormed(input.rows))
        => (pc = "done" /\ ret = input)

\* ------------------------------------------------------------------- C8
\* C8: on a strictly ascending series every window returned by any of the
\* three extractors has start <= end.
C8_StartBeforeEnd ==
    (ExtractDone /\ StrictlyAscending(series)) => WellFormed(ret.rows)

\* The between extractor returned a window of a single sample (start = end).
C8_Witness ==
    /\ ExtractDone /\ fn = "between" /\ StrictlyAscending(series)
    /\ \E k \in 1..Len(ret.rows) : ret.rows[k].STARTTIME = ret.rows[k].ENDTIME

\* ------------------------------------------------------------------- C9
\* C9: an extractor returns only for a series sorted ascending by timestamp
\* (any other series is rejected), and never returns a window with
\* start > end.
C9_FailFastOnUnsorted ==
    ExtractDone => (Ascending(series) /\ WellFormed(ret.rows))

\* ------------------------------------------------------------------ C10
\* The largest value of the series (or v0 for the empty series).
RECURSIVE MaxValue(_, _)
MaxValue(s, v0) ==
    IF s = <<>> THEN v0
    ELSE MaxValue(Tail(s), IF Head(s).nT > v0 THEN Head(s).nT ELSE v0)

\* The series with every value negated.
Negated(s) ==
    [k \in 1..Len(s) |-> [TIMESTAMP |-> s[k].TIMESTAMP, nT |-> 0 - s[k].nT]]

\* C10 as claimed: "above" with threshold T and "between" with bounds
\* [T+1, M], M the largest value, return the same windows.
C10_SameAutomaton ==
    (ExtractDone /\ fn = "above")
        => ret = extract_timespan_between_nT_intensity(
                     series, THRESHOLD + 1, MaxValue(series, THRESHOLD + 1))

\* C10 as amended: "above" with threshold T on a series and "below" with
\* threshold -T on the negated series (their predicates agree on every
\* sample) return the same windows, and likewise with the roles exchanged.
C10_AboveBelowMirror ==
    /\ (ExtractDone /\ fn = "above")
          => ret = extract_timespan_below_nT_intensity(Negated(series), 0 - THRESHOLD)
    /\ (ExtractDone /\ fn = "below")
          => ret = extract_timespan_above_nT_intensity(Negated(series), 0 - THRESHOLD)

\* "above" returned a window that stayed open across a sample equal to the
\* threshold.
C10_Witness ==
    /\ ExtractDone /\ fn = "above" /\ Len(ret.rows) = 1 /\ Len(series) = 3
    /\ series[2].nT = THRESHOLD
    /\ ret.rows[1].STARTTIME = series[1].TIMESTAMP
    /\ ret.rows[1].ENDTIME = series[3].TIMESTAMP

\* ------------------------------------------------------------------ C11
\* merge_window or add_window_duration has returned a table.
TableDone == (fn \in {"merge", "annotate"}) /\ (pc = "done")

\* C11: every row of a table returned by add_window_duration or merge_window,
\* after any chain of such calls, has DURATION_HOURS = ENDTIME - STARTTIME in
\* hours (also where a merge moved the end), and it is 0 exactly when
\* start = end.
C11_DurationInSync ==
    TableDone
        => \A k \in 1..Len(ret.rows) :
              /\ ret.rows[k].DURATION_HOURS
                     = ret.rows[k].ENDTIME - ret.rows[k].STARTTIME
              /\ (ret.rows[k].DURATION_HOURS = 0)
                     <=> (ret.rows[k].STARTTIME = ret.rows[k].ENDTIME)

\* A second call merged two rows into one next to a zero-length window.
C11_Witness ==
    /\ MergeDone /\ calls = 2
    /\ Len(ret.rows) < Len(input.rows)
    /\ \E k \in 1..Len(ret.rows) : ret.rows[k].DURATION_HOURS = 0
    /\ \E k \in 1..Len(ret.rows) : ret.rows[k].DURATION_HOURS > 0

\* ------------------------------------------------------------------ C12
\* C12: after merge_window or add_window_duration has returned, the caller's
\* table is as it was passed in, and the returned table is another object.
C12_InputUntouched ==
    TableDone => (df = input /\ ~ret_is_df)

\* ------------------------------------------------------------------ C13
\* C13: a series (the empty one included) in which the predicate holds for
\* no sample yields no window, for each of the three extractors.
C13_NeverTrueIsEmpty ==
    (ExtractDone /\ \A k \in 1..Len(series) : ~Predicate(series[k].nT))
        => ret = from_dict(<<>>)

\* "above" ran over a sample equal to the threshold followed by a lower one
\* and returned nothing.
C13_Witness ==
    /\ ExtractDone /\ fn = "above" /\ Len(series) >= 2
    /\ series[1].nT = THRESHOLD /\ series[2].nT < THRESHOLD
    /\ \A k \in 1..Len(series) : ~Predicate(series[k].nT)
    /\ ret.rows = <<>>

\* ------------------------------------------------------------------ C14
RangeDone == (fn = "range") /\ (pc = "done")

\* The samples of s with from <= timestamp <= to, in their order.
RECURSIVE SamplesInRange(_, _, _)
SamplesInRange(s, from, to) ==
    IF s = <<>> THEN <<>>
    ELSE (IF (from <= Head(s).TIMESTAMP) /\ (Head(s).TIMESTAMP <= to)
          THEN <<Head(s)>> ELSE <<>>) \o SamplesInRange(Tail(s), from, to)

\* C14: get_Dst_in_range returns exactly the samples with
\* from <= timestamp <= to, in their original order, none outside the range,
\* and nothing when from > to.
C14_InclusiveRange ==
    RangeDone
        => /\ ret.rows = SamplesInRange(series, range[1], range[2])
           /\ \A k \in 1..Len(ret.rows) :
                  /\ range[1] <= ret.rows[k].TIMESTAMP
                  /\ ret.rows[k].TIMESTAMP <= range[2]
           /\ Len(ret.rows)
                  = Cardinality({k \in 1..Len(series) :
                                    /\ range[1] <= series[k].TIMESTAMP
                                    /\ series[k].TIMESTAMP <= range[2]})
           /\ (range[1] > range[2]) => ret.rows = <<>>

\* Samples exactly at both bounds were returned and a sample outside was not.
C14_Witness ==
    /\ RangeDone /\ range[1] < range[2] /\ Len(ret.rows) >= 2
    /\ ret.rows[1].TIMESTAMP = range[1]
    /\ ret.rows[Len(ret.rows)].TIMESTAMP = range[2]
    /\ Len(series) > Len(ret.rows)

\* ------------------------------------------------------------------ C15
\* The accumulated window number j of the running merge.
Accumulated(l, j) == l.events[l.merge_events[j]]

\* Over one step of the merge loop every window already in the accumulator
\* keeps its start and its end does not move backward.
AccumulatorAdvances ==
    \A j \in 1..Len(loc.merge_events) :
        /\ j <= Len(loc'.merge_events)
        /\ Accumulated(loc', j).STARTTIME = Accumulated(loc, j).STARTTIME
        /\ Accumulated(loc', j).ENDTIME >= Accumulated(loc, j).ENDTIME

InMergeLoop == (fn = "merge") /\ (pc = "loop")

\* C15 as claimed: for every input sorted by start with start <= end.
C15_EndNeverMovesBack ==
    [][(InMergeLoop /\ InMergeLoop'
            /\ SortedByStart(input.rows) /\ WellFormed(input.rows))
          => AccumulatorAdvances]_vars

\* C15 as amended: for every input sorted by start, pairwise disjoint, with
\* start <= end (as an extractor produces it).
C15_EndNeverMovesBackDisjoint ==
    [][(InMergeLoop /\ InMergeLoop' /\ ExtractorShaped(input.rows))
          => AccumulatorAdvances]_vars

\* The second event was merged into the first accumulated window, whose end
\* moved forward.
C15_Witness ==
    /\ InMergeLoop /\ ExtractorShaped(input.rows) /\ idx = 3
    /\ Len(loc.merge_events) = 1
    /\ Accumulated(loc, 1).STARTTIME = input.rows[1].STARTTIME
    /\ Accumulated(loc, 1).ENDTIME = input.rows[2].ENDTIME
    /\ input.rows[2].ENDTIME > input.rows[1].ENDTIME

\* ------------------------------------------------------------------ C16
\* C16: merge_window called directly on the non-empty table an extractor
\* returned (start and end columns only) returns the merged windows.
C16_PipelineRuns ==
    (MergeEnded /\ series # <<>> /\ calls = 1 /\ Len(input.rows) >= 1)
        => (pc = "done")

\* ------------------------------------------------------------------ C17
\* Row w of the result is the maximal in-range run series[i..j].
MaximalRun(w, i, j) ==
    /\ series[i].TIMESTAMP = w.STARTTIME
    /\ series[j].TIMESTAMP = w.ENDTIME
    /\ \A k \in i..j : Predicate(series[k].nT)
    /\ (i > 1) => ~Predicate(series[i - 1].nT)
    /\ j < Len(series)
    /\ ~Predicate(series[j + 1].nT)

\* C17: on a strictly ascending series with lb <= ub every window of the
\* between extractor ends at the last sample still in range, holds only
\* in-range samples, and the samples just before and just after are not in
\* range.
C17_BetweenMaximalRuns ==
    (ExtractDone /\ fn = "between" /\ StrictlyAscending(series)
        /\ bounds[1] <= bounds[2])
        => \A r \in 1..Len(ret.rows) :
              \E i \in 1..Len(series) : \E j \in i..Len(series) :
                  MaximalRun(ret.rows[r], i, j)

\* A run of two in-range samples between two out-of-range samples was
\* returned.
C17_Witness ==
    /\ ExtractDone /\ fn = "between" /\ StrictlyAscending(series)
    /\ Len(series) = 4 /\ Len(ret.rows) = 1
    /\ MaximalRun(ret.rows[1], 2, 3)

\* ------------------------------------------------------------------ C18
\* C18: on a strictly ascending series the windows of each extractor are in
\* time order and pairwise disjoint: each ends before the next one starts.
C18_WindowsDisjoint ==
    (ExtractDone /\ StrictlyAscending(series)) => Disjoint(ret.rows)

\* Two windows were returned.
C18_Witness ==
    ExtractDone /\ StrictlyAscending(series) /\ Len(ret.rows) = 2

\* ------------------------------------------------------------------ C19
\* C19: for a non-empty extractor-shaped table carrying the duration column
\* merge_window returns, every input window lies inside some returned
\* window, the first returned window starts where the first input window
\* starts and the last one ends where the last input window ends.
C19_NoCoverageLost ==
    (MergeEnded /\ Annotated /\ Len(input.rows) >= 1
        /\ ExtractorShaped(input.rows))
        => /\ pc = "done"
           /\ \A j \in 1..Len(input.rows) :
                  \E k \in 1..Len(ret.rows) : Covers(ret.rows[k], input.rows[j])
           /\ ret.rows[1].STARTTIME = input.rows[1].STARTTIME
           /\ ret.rows[Len(ret.rows)].ENDTIME
                  = input.rows[Len(input.rows)].ENDTIME

\* Three windows came back as two: one merge, one window kept apart.
C19_Witness ==
    /\ MergeDone /\ Annotated /\ ExtractorShaped(input.rows)
    /\ Len(input.rows) = 3 /\ Len(ret.rows) = 2
    /\ ret.rows[2].STARTTIME = input.rows[2].STARTTIME
    /\ ret.rows[2].ENDTIME = input.rows[3].ENDTIME

\* ------------------------------------------------------------------ C20
\* C20: the between extractor never reads _timestamp before assigning it: it
\* never raises, no window is open before the first sample is processed, and
\* whenever a window is open _timestamp holds a sample's timestamp.
C20_TimestampBound ==
    (fn = "between")
        => /\ pc # "raised"
           /\ ~loc.raised
           /\ (idx = 1) => (loc.stime = None)
           /\ (loc.stime # None) => (loc._timestamp # Unbound)

\* The end-of-window branch ran at the second sample and read the first
\* sample's timestamp.
C20_Witness ==
    /\ fn = "between" /\ pc = "loop" /\ idx = 3
    /\ Predicate(series[1].nT) /\ ~Predicate(series[2].nT)
    /\ loc.active_time_records
           = <<[STARTTIME |-> series[1].TIMESTAMP, ENDTIME |-> series[1].TIMESTAMP]>>

====
